---- MODULE Spec2Model ----
(***************************************************************************)
(* Chunking, token-budget enforcement, batch upsert and the drivers of     *)
(* chroma_mcp_client/indexing.py, and the connection it uses               *)
(* (chroma_mcp_client/connection.py, chroma_mcp/utils/chroma_client.py).   *)
(*                                                                         *)
(* A line of a file is a record [k |-> kind, w |-> width in characters].   *)
(* The kind is the line's class under the patterns of _chunk_code_semantic *)
(* and under str.strip().  A text is the join of a non-empty list of lines *)
(* cut to its first src characters and followed by mk characters of the    *)
(* truncation marker: [lines, src, mk].                                    *)
(***************************************************************************)
EXTENDS Integers, Sequences, FiniteSets, TLC

VARIABLES
    tok,    \* the token counter in use (TIKTOKEN_AVAILABLE and the encoder)
    tr,     \* truncate_chunk_to_token_limit: its locals and program point
    lc,     \* chunk_file_content: its locals and program point
    sm,     \* chunk_file_content_semantic: its arguments, locals and result
    ix,     \* index_file: its arguments, locals, program point and return value
    collection, \* the Chroma collection: id -> [document, metadata]
    call,   \* the latest collection.upsert call and its outcome
    runs,   \* the index_file calls that have returned, in order
    faults, \* number of upsert calls that raised so far
    sent,   \* the collection.upsert calls of the index_file call under way
    dr,     \* index_git_files / index_paths: arguments, locals, program point
    cn      \* the connections of the process: the global client and the cache

indexVars == <<ix, collection, call, runs, faults, sent, dr, cn>>

vars == <<tok, tr, lc, sm, ix, collection, call, runs, faults, sent, dr, cn>>

(***************************************************************************)
(* Bounds of the model.                                                    *)
(***************************************************************************)
MaxTextLen == 60
MaxMaxTokens == 14
MaxLines == 6
MaxWindow == 5
MaxSemLines == 4

(***************************************************************************)
(* Program constants.                                                      *)
(***************************************************************************)
OPENAI_MAX_TOKENS == 8192
MARKER_LEN == 46
MAX_LINES_PER_SEMANTIC_CHUNK == 100
SEMANTIC_SPLIT_OVERLAP == 5

Min(a, b) == IF a <= b THEN a ELSE b
Max(a, b) == IF a >= b THEN a ELSE b

(***************************************************************************)
(* Texts.                                                                  *)
(***************************************************************************)
\* sum(len(line) for line in lines[a-1:b]), by halves
RECURSIVE SumWidthsIn(_, _, _)
SumWidthsIn(lines, a, b) ==
    IF a > b THEN 0
    ELSE IF a = b THEN lines[a].w
    ELSE LET mid == (a + b) \div 2
         IN  SumWidthsIn(lines, a, mid) + SumWidthsIn(lines, mid + 1, b)

SumWidths(lines) == SumWidthsIn(lines, 1, Len(lines))

\* len("\n".join(lines))
JoinLen(lines) ==
    IF lines = <<>> THEN 0 ELSE SumWidths(lines) + Len(lines) - 1

\* "\n".join(lines)
Join(lines) == [lines |-> lines, src |-> JoinLen(lines), mk |-> 0]

\* len(text)
TextLen(text) == text.src + text.mk

\* text[:k] for 0 <= k
Slice(text, k) ==
    IF k <= text.src
    THEN [text EXCEPT !.src = k, !.mk = 0]
    ELSE [text EXCEPT !.mk = Min(k, TextLen(text)) - text.src]

\* text + "\n\n[... chunk truncated due to token limit ...]"
AppendMarker(text) == [text EXCEPT !.mk = text.mk + MARKER_LEN]

(***************************************************************************)
(* count_tokens.  tok.tiktoken is TIKTOKEN_AVAILABLE.  The estimate is     *)
(* int(len(text) * 0.25).  The tiktoken encoder is an external library: it *)
(* is a deterministic counter with count("") = 0, here one of a family     *)
(* indexed by the text length, with tok.cpt characters per token and dip   *)
(* tokens fewer from length dipAt on (a counter that is not monotone in    *)
(* the prefix length).                                                     *)
(***************************************************************************)
EstimateTokens(text) == (TextLen(text) * 25) \div 100

TiktokenTokens(text) ==
    LET n == TextLen(text)
        base == (n + tok.cpt - 1) \div tok.cpt
    IN  IF tok.dipAt > 0 /\ n >= tok.dipAt THEN Max(base - tok.dip, 0) ELSE base

count_tokens(text) ==
    IF tok.tiktoken THEN TiktokenTokens(text) ELSE EstimateTokens(text)

Estimate == [tiktoken |-> FALSE, cpt |-> 4, dipAt |-> 0, dip |-> 0]
Tiktoken(c, at, d) == [tiktoken |-> TRUE, cpt |-> c, dipAt |-> at, dip |-> d]

(***************************************************************************)
(* truncate_chunk_to_token_limit, one step per loop iteration.             *)
(***************************************************************************)
TruncStart(chunk_text, max_tokens) ==
    [pc |-> "entry", chunk_text |-> chunk_text, max_tokens |-> max_tokens,
     left |-> 0, right |-> 0, best_length |-> 0, truncated_text |-> chunk_text]

TruncEntry(s) ==
    IF count_tokens(s.chunk_text) <= s.max_tokens
    THEN [s EXCEPT !.pc = "done", !.truncated_text = s.chunk_text]
    ELSE [s EXCEPT !.pc = "search", !.left = 0,
                   !.right = TextLen(s.chunk_text), !.best_length = 0]

\* mutant: the upper end of the search moves below the length just tried
TruncSearchSkips(s) ==
    IF s.left < s.right
    THEN LET mid == (s.left + s.right) \div 2
         IN  IF count_tokens(Slice(s.chunk_text, mid)) <= s.max_tokens
             THEN [s EXCEPT !.best_length = mid, !.left = mid + 1]
             ELSE [s EXCEPT !.right = mid - 1]
    ELSE [s EXCEPT !.pc = "mark"]

TruncSearch(s) ==
    IF s.left < s.right
    THEN LET mid == (s.left + s.right) \div 2
         IN  IF count_tokens(Slice(s.chunk_text, mid)) <= s.max_tokens
             THEN [s EXCEPT !.best_length = mid, !.left = mid + 1]
             ELSE [s EXCEPT !.right = mid]
    ELSE [s EXCEPT !.pc = "mark"]

\* mutant: the note is appended without counting the tokens again
TruncMarkUnchecked(s) ==
    LET bare == Slice(s.chunk_text, s.best_length)
    IN  [s EXCEPT !.pc = "done", !.truncated_text = AppendMarker(bare)]

\* mutant: the note is never appended
TruncMarkNeverNoted(s) ==
    LET bare == Slice(s.chunk_text, s.best_length)
    IN  IF count_tokens(bare) > s.max_tokens
        THEN [s EXCEPT !.pc = "shrink", !.truncated_text = bare]
        ELSE [s EXCEPT !.pc = "done", !.truncated_text = bare]

TruncMark(s) ==
    LET bare == Slice(s.chunk_text, s.best_length)
        noted == IF TextLen(bare) < TextLen(s.chunk_text)
                 THEN AppendMarker(bare) ELSE bare
    IN  IF count_tokens(noted) > s.max_tokens
        THEN [s EXCEPT !.pc = "shrink", !.truncated_text = bare]
        ELSE [s EXCEPT !.pc = "done", !.truncated_text = noted]

\* mutant: the loop goes on while the count is not below max_tokens
TruncShrinkWhileNotBelow(s) ==
    IF count_tokens(s.truncated_text) >= s.max_tokens
    THEN LET shorter == (s.best_length * 95) \div 100
         IN  [s EXCEPT !.best_length = shorter,
                       !.truncated_text = Slice(s.chunk_text, shorter)]
    ELSE [s EXCEPT !.pc = "done"]

TruncShrink(s) ==
    IF count_tokens(s.truncated_text) > s.max_tokens
    THEN LET shorter == (s.best_length * 95) \div 100
         IN  [s EXCEPT !.best_length = shorter,
                       !.truncated_text = Slice(s.chunk_text, shorter)]
    ELSE [s EXCEPT !.pc = "done"]

TruncStep(s) ==
    CASE s.pc = "entry" -> TruncEntry(s)
      [] s.pc = "search" -> TruncSearch(s)
      [] s.pc = "mark" -> TruncMark(s)
      [] s.pc = "shrink" -> TruncShrink(s)
      [] OTHER -> s

RECURSIVE TruncRun(_)
TruncRun(s) == IF s.pc = "done" THEN s.truncated_text ELSE TruncRun(TruncStep(s))

truncate_chunk_to_token_limit(chunk_text, max_tokens) ==
    TruncRun(TruncStart(chunk_text, max_tokens))

(***************************************************************************)
(* chunk_file_content, one step per iteration of its while loop.           *)
(***************************************************************************)
\* text.splitlines() of a text that was not cut: the lines that were joined,
\* without the last one when it is the empty string ("a\n".splitlines() is
\* ["a"], and "".splitlines() is []).
Splitlines(text) ==
    LET ls == text.lines
    IN  IF ls # <<>> /\ ls[Len(ls)].k = "empty"
        THEN SubSeq(ls, 1, Len(ls) - 1)
        ELSE ls

\* lines[a:b] for 0 <= a, with Python's meaning of a negative b
PySlice(lines, a, b) ==
    LET n == Len(lines)
        hi == IF b < 0 THEN Max(b + n, 0) ELSE Min(b, n)
    IN  IF a >= hi THEN <<>> ELSE SubSeq(lines, a + 1, hi)

\* text.strip() is not empty
StripNonEmpty(text) ==
    /\ TextLen(text) > 0
    /\ \/ text.mk > 0
       \/ \E i \in 1..Len(text.lines) : text.lines[i].k \notin {"empty", "ws"}

\* mutant: the windows do not overlap
AdvanceWholeWindow(lines_per_chunk, line_overlap) ==
    IF lines_per_chunk <= 0 THEN 1 ELSE lines_per_chunk

\* mutant: no guard against an advance of zero or less
AdvanceUnguarded(lines_per_chunk, line_overlap) ==
    lines_per_chunk - line_overlap

Advance(lines_per_chunk, line_overlap) ==
    LET advance == lines_per_chunk - line_overlap
    IN  IF advance <= 0 THEN 1 ELSE advance

RECURSIVE FilterChunks(_)
FilterChunks(chunks) ==
    IF chunks = <<>> THEN <<>>
    ELSE IF StripNonEmpty(Head(chunks)[1])
         THEN <<Head(chunks)>> \o FilterChunks(Tail(chunks))
         ELSE FilterChunks(Tail(chunks))

LCStart(content, lines_per_chunk, line_overlap) ==
    [pc |-> IF Splitlines(content) = <<>> THEN "done" ELSE "loop",
     lines |-> Splitlines(content), lines_per_chunk |-> lines_per_chunk,
     line_overlap |-> line_overlap, current_line_idx |-> 0,
     chunks_with_pos |-> <<>>, result |-> <<>>]

LCLoop(s) ==
    IF s.current_line_idx < Len(s.lines)
    THEN LET start_idx == s.current_line_idx
             end_idx_slice == Min(s.current_line_idx + s.lines_per_chunk, Len(s.lines))
             chunk_lines == PySlice(s.lines, start_idx, end_idx_slice)
             appended ==
                 IF chunk_lines # <<>>
                 THEN Append(s.chunks_with_pos,
                             <<Join(chunk_lines), start_idx, end_idx_slice - 1>>)
                 ELSE s.chunks_with_pos
         IN  IF end_idx_slice = Len(s.lines)
             THEN [s EXCEPT !.pc = "filter", !.chunks_with_pos = appended]
             ELSE [s EXCEPT !.chunks_with_pos = appended,
                            !.current_line_idx =
                                start_idx + Advance(s.lines_per_chunk, s.line_overlap)]
    ELSE [s EXCEPT !.pc = "filter"]

LCFilter(s) ==
    [s EXCEPT !.pc = "done", !.result = FilterChunks(s.chunks_with_pos)]

LCStep(s) ==
    CASE s.pc = "loop" -> LCLoop(s)
      [] s.pc = "filter" -> LCFilter(s)
      [] OTHER -> s

RECURSIVE LCRun(_)
LCRun(s) == IF s.pc = "done" THEN s.result ELSE LCRun(LCStep(s))

chunk_file_content(content, lines_per_chunk, line_overlap) ==
    LCRun(LCStart(content, lines_per_chunk, line_overlap))

LCIdle == LCStart(Join(<<>>), 0, 0)

(***************************************************************************)
(* _chunk_code_semantic.  The kinds of a line, by the patterns it matches: *)
(*   "empty"     the empty string                                          *)
(*   "ws"        only whitespace                                           *)
(*   "code"      no pattern, no leading triple quote                       *)
(*   "class"     class_pattern                    (class Foo:)             *)
(*   "def"       py_function_pattern and function_pattern   (def f(x):)    *)
(*   "asyncdef"  py_function_pattern only         (async def f(x):)        *)
(*   "func"      function_pattern and js_function_pattern (function f(x))  *)
(*   "call"      js_class_method_pattern only     (render(x))              *)
(*   "quote"     strip() starts with a triple quote that is not closed on  *)
(*               the line                                                  *)
(*   "quote1"    strip() starts with a triple quote, closed on the line    *)
(***************************************************************************)
CodeSuffixes ==
    {".py", ".js", ".ts", ".java", ".c", ".cpp", ".cs", ".go", ".php", ".rb"}

MatchesClass(line) == line.k = "class"
MatchesPyFunction(line) == line.k \in {"def", "asyncdef"}
MatchesJsFunction(line) == line.k = "func"
MatchesJsClassMethod(line) == line.k = "call"
MatchesFunction(line) == line.k \in {"def", "func"}
StartsTripleQuote(line) == line.k \in {"quote", "quote1"}

\* the entries appended to boundaries for line i (0-based) outside a docstring
LineBoundaries(line, i, file_type) ==
    (IF MatchesClass(line) THEN <<i>> ELSE <<>>)
    \o (IF file_type = ".py" /\ MatchesPyFunction(line) THEN <<i>>
        ELSE IF file_type \in {".js", ".ts"}
                /\ (MatchesJsFunction(line) \/ MatchesJsClassMethod(line))
             THEN <<i>>
        ELSE IF MatchesFunction(line) THEN <<i>>
        ELSE <<>>)

\* one iteration of the scan over the lines; st is [i, boundaries, in_docstring]
ScanLine(st, lines, file_type) ==
    LET line == lines[st.i + 1]
    IN  IF file_type = ".py" /\ StartsTripleQuote(line)
        THEN [st EXCEPT !.i = st.i + 1, !.in_docstring = ~st.in_docstring]
        ELSE IF file_type = ".py" /\ st.in_docstring
        THEN [st EXCEPT !.i = st.i + 1]
        ELSE [st EXCEPT !.i = st.i + 1,
                        !.boundaries =
                            st.boundaries \o LineBoundaries(line, st.i, file_type)]

RECURSIVE ScanLines(_, _, _)
ScanLines(st, lines, file_type) ==
    IF st.i >= Len(lines) THEN st
    ELSE ScanLines(ScanLine(st, lines, file_type), lines, file_type)

FindBoundaries(lines, file_type) ==
    ScanLines([i |-> 0, boundaries |-> <<>>, in_docstring |-> FALSE],
              lines, file_type).boundaries

\* sorted(set(xs)) for a set of integers
RECURSIVE SortedSeq(_)
SortedSeq(S) ==
    IF S = {} THEN <<>>
    ELSE LET m == CHOOSE x \in S : \A y \in S : x <= y
         IN  <<m>> \o SortedSeq(S \ {m})

Range(f) == {f[i] : i \in DOMAIN f}

\* mutant: line 0 is not added to the boundaries
WithEndsNoStart(boundaries, lines) == SortedSeq(Range(boundaries) \union {Len(lines)})

WithEnds(boundaries, lines) == SortedSeq({0} \union Range(boundaries) \union {Len(lines)})

\* the chunks between consecutive boundaries, before the size check
RECURSIVE BoundaryChunks(_, _, _)
BoundaryChunks(lines, boundaries, i) ==
    IF i >= Len(boundaries) THEN <<>>
    ELSE LET start_line == boundaries[i]
             end_line == boundaries[i + 1] - 1
             chunk_text == Join(PySlice(lines, start_line, end_line + 1))
         IN  (IF end_line < start_line \/ ~StripNonEmpty(chunk_text)
              THEN <<>>
              ELSE <<<<chunk_text, start_line, end_line>>>>)
             \o BoundaryChunks(lines, boundaries, i + 1)

ShiftChunks(sub_chunks, start_line) ==
    [i \in 1..Len(sub_chunks) |->
        <<sub_chunks[i][1], start_line + sub_chunks[i][2], start_line + sub_chunks[i][3]>>]

RECURSIVE SplitLarge(_)
SplitLarge(chunks) ==
    IF chunks = <<>> THEN <<>>
    ELSE LET c == Head(chunks)
             chunk_lines == Splitlines(c[1])
         IN  (IF Len(chunk_lines) > MAX_LINES_PER_SEMANTIC_CHUNK
              THEN ShiftChunks(chunk_file_content(c[1], MAX_LINES_PER_SEMANTIC_CHUNK,
                                                  SEMANTIC_SPLIT_OVERLAP), c[2])
              ELSE <<c>>)
             \o SplitLarge(Tail(chunks))

_chunk_code_semantic(lines, file_type) ==
    LET boundaries == FindBoundaries(lines, file_type)
    IN  IF boundaries = <<>> THEN <<>>
        ELSE SplitLarge(BoundaryChunks(lines, WithEnds(boundaries, lines), 1))

(***************************************************************************)
(* chunk_file_content_semantic.  UseSemantic is the test of line 250.      *)
(***************************************************************************)
\* mutant: one semantic chunk is enough
UseSemanticAny(chunks) == Len(chunks) > 0

UseSemantic(chunks) == chunks # <<>> /\ Len(chunks) > 1

\* mutant: the fallback ignores the caller's window and overlap
FallbackDefaults(content, lines_per_chunk, line_overlap) ==
    chunk_file_content(content, 40, 5)

Fallback(content, lines_per_chunk, line_overlap) ==
    chunk_file_content(content, lines_per_chunk, line_overlap)

SemStart(content, suffix, lines_per_chunk, line_overlap) ==
    [pc |-> IF Splitlines(content) = <<>> THEN "done"
            ELSE IF suffix \in CodeSuffixes THEN "scan" ELSE "decide",
     content |-> content, suffix |-> suffix, lines |-> Splitlines(content),
     lines_per_chunk |-> lines_per_chunk, line_overlap |-> line_overlap,
     boundaries |-> <<>>, chunks |-> <<>>, result_chunks |-> <<>>, result |-> <<>>]

SemScan(s) ==
    LET boundaries == FindBoundaries(s.lines, s.suffix)
    IN  [s EXCEPT !.boundaries = boundaries,
                  !.pc = IF boundaries = <<>> THEN "decide" ELSE "split"]

SemSplit(s) ==
    [s EXCEPT !.pc = "resplit",
              !.chunks = BoundaryChunks(s.lines, WithEnds(s.boundaries, s.lines), 1)]

SemResplit(s) ==
    [s EXCEPT !.pc = "decide", !.result_chunks = SplitLarge(s.chunks)]

SemDecide(s) ==
    [s EXCEPT !.pc = "done",
              !.result = IF s.suffix \in CodeSuffixes /\ UseSemantic(s.result_chunks)
                         THEN s.result_chunks
                         ELSE Fallback(s.content, s.lines_per_chunk, s.line_overlap)]

SemStep(s) ==
    CASE s.pc = "scan" -> SemScan(s)
      [] s.pc = "split" -> SemSplit(s)
      [] s.pc = "resplit" -> SemResplit(s)
      [] s.pc = "decide" -> SemDecide(s)
      [] OTHER -> s

RECURSIVE SemRun(_)
SemRun(s) == IF s.pc = "done" THEN s.result ELSE SemRun(SemStep(s))

chunk_file_content_semantic(content, suffix, lines_per_chunk, line_overlap) ==
    SemRun(SemStart(content, suffix, lines_per_chunk, line_overlap))

SemIdle == SemStart(Join(<<>>), ".txt", 0, 0)

(***************************************************************************)
(* index_file.  A file is [kind, stem, suffix, content]: kind is what the  *)
(* path names on disk ("file", "dir" or "missing"), stem and suffix are    *)
(* the two parts of the relative path, content is what read_text returns.  *)
(* An upsert either stores all its documents ("ok") or raises and stores   *)
(* nothing: "ctx" is an error whose message mentions the context length,   *)
(* "auth" an authentication or permission error of the provider, "err"     *)
(* any other error.  The metadata kept is file_path, commit_sha,           *)
(* chunk_index, start_line, end_line and truncated.  A call ends at pc     *)
(* "done" when index_file returns ret, at "raised" when it raises.         *)
(***************************************************************************)
DEFAULT_SUPPORTED_SUFFIXES ==
    {".py", ".ts", ".js", ".go", ".java", ".md", ".txt", ".sh", ".yaml", ".json",
     ".h", ".c", ".cpp", ".cs", ".rb", ".php", ".toml", ".ini", ".cfg", ".sql",
     ".dockerfile", "Dockerfile", ".env"}

BATCH_SIZE == 5
max_tokens_per_batch == OPENAI_MAX_TOKENS - 500
DEFAULT_LINES_PER_CHUNK == 40
DEFAULT_LINE_OVERLAP == 5

Outcomes == {"ok", "ctx", "auth", "err"}

\* str.lower() on the suffixes of the model
Lower(suffix) ==
    CASE suffix = ".PY" -> ".py"
      [] suffix = ".MD" -> ".md"
      [] OTHER -> suffix

\* str(file_path.relative_to(repo_root))
RelativePath(file) == file.stem \o file.suffix

\* mutant: the revision is left out of the id
ChunkIdWithoutRevision(relative_path, commit_sha, chunk_index) ==
    relative_path \o ":" \o ToString(chunk_index)

\* f"{relative_path}:{commit_sha}:{chunk_index}"
ChunkId(relative_path, commit_sha, chunk_index) ==
    relative_path \o ":" \o commit_sha \o ":" \o ToString(chunk_index)

\* mutant: no chunk is ever truncated
NeverOverLimit(token_count) == FALSE

\* mutant: a chunk is truncated only beyond twice the limit
OverLimitDoubled(token_count) == token_count > 2 * OPENAI_MAX_TOKENS

\* token_count > OPENAI_MAX_TOKENS
OverLimit(token_count) == token_count > OPENAI_MAX_TOKENS

\* mutant: the batch is never closed for its token sum
BudgetIgnored(batch_tokens, chunk_tokens, batch_ids) == FALSE

\* mutant: the budget closes a batch only once it holds two chunks
BudgetCheckedAfterTwo(batch_tokens, chunk_tokens, batch_ids) ==
    batch_tokens + chunk_tokens > max_tokens_per_batch /\ Len(batch_ids) >= 2

\* batch_tokens + chunk_tokens > max_tokens_per_batch and batch_ids
BudgetExceeded(batch_tokens, chunk_tokens, batch_ids) ==
    batch_tokens + chunk_tokens > max_tokens_per_batch /\ batch_ids # <<>>

\* mutant: a key that is already stored is not overwritten, the document is
\* stored under a new key
UpsertedAside(coll, ids, documents, metadatas) ==
    LET Key(k) == IF ids[k] \in DOMAIN coll THEN ids[k] \o ":dup" ELSE ids[k]
        new == {Key(k) : k \in 1..Len(ids)}
        Pos(id) == CHOOSE k \in 1..Len(ids) : Key(k) = id
    IN  [id \in DOMAIN coll \union new |->
            IF id \in new
            THEN [document |-> documents[Pos(id)], metadata |-> metadatas[Pos(id)]]
            ELSE coll[id]]

\* mutant: the upsert replaces what the collection held
UpsertedAlone(coll, ids, documents, metadatas) ==
    LET Pos(id) == CHOOSE k \in 1..Len(ids) : ids[k] = id
    IN  [id \in Range(ids) |->
            [document |-> documents[Pos(id)], metadata |-> metadatas[Pos(id)]]]

\* the collection after a collection.upsert(ids, metadatas, documents) that
\* does not raise
Upserted(coll, ids, documents, metadatas) ==
    LET new == Range(ids)
        Pos(id) == CHOOSE k \in 1..Len(ids) : ids[k] = id
    IN  [id \in DOMAIN coll \union new |->
            IF id \in new
            THEN [document |-> documents[Pos(id)], metadata |-> metadatas[Pos(id)]]
            ELSE coll[id]]

NoFile == [kind |-> "missing", stem |-> "", suffix |-> "", content |-> Join(<<>>)]

IxIdle ==
    [pc |-> "idle", file |-> NoFile, commit_sha_override |-> "", head |-> "",
     acquire |-> "none", relative_path |-> "", commit_sha |-> "",
     is_openai_embedding |-> FALSE, chunks_with_pos |-> <<>>,
     ids_list |-> <<>>, metadatas_list |-> <<>>, documents_list |-> <<>>,
     truncated_count |-> 0, i |-> 0,
     batch_ids |-> <<>>, batch_metadatas |-> <<>>, batch_documents |-> <<>>,
     batch_tokens |-> 0, j |-> 0, successful_count |-> 0, ret |-> FALSE]

CallNone == [site |-> "none", ids |-> <<>>, documents |-> <<>>, outcome |-> "none"]

\* a driver that has not been called.  paths are the paths it walks, each
\* [kind, files]: a file is a path of kind "file" holding itself, a
\* directory holds the files os.walk finds in it; p counts the paths left
\* behind and f the files left behind in the current path.
DrIdle ==
    [driver |-> "none", pc |-> "idle", paths |-> <<>>, p |-> 0, f |-> 0,
     head |-> "", mismatch |-> FALSE, is_openai |-> FALSE,
     indexed_count |-> 0, ret |-> 0]

\* no client: the value None of _chroma_client
NoClient == [id |-> 0, host |-> "", tenant |-> "", database |-> ""]

\* a process that has made no connection: chroma_client is the module
\* global _chroma_client, cache the lru_cache of get_client_and_ef (from
\* configuration to the client returned), created the number of clients
\* created, calls the number of get_client_and_ef calls, last the latest
\* call and what it returned
CnIdle ==
    [chroma_client |-> NoClient, cache |-> <<>>, created |-> 0, calls |-> 0,
     last |-> [config |-> NoClient, client |-> NoClient, raised |-> FALSE]]

\* no collection.upsert call yet: the number of calls and, per chunk id, how
\* often it was passed in a batch, passed alone and upserted without an error
SentNone == [calls |-> 0, batch |-> <<>>, alone |-> <<>>, ok |-> <<>>]

\* the counts f with one more for every id of ids
Bump(f, ids) ==
    [id \in DOMAIN f \union Range(ids) |->
        (IF id \in DOMAIN f THEN f[id] ELSE 0) + (IF id \in Range(ids) THEN 1 ELSE 0)]

\* the counts after the collection.upsert call c ended with outcome o
Sent(s, c, o) ==
    LET together == c.site \in {"flush", "ov_flush", "bulk"}
    IN  [calls |-> s.calls + 1,
         batch |-> IF together THEN Bump(s.batch, c.ids) ELSE s.batch,
         alone |-> IF together THEN s.alone ELSE Bump(s.alone, c.ids),
         ok |-> IF o = "ok" THEN Bump(s.ok, c.ids) ELSE s.ok]

IndexIdle ==
    /\ cn = CnIdle
    /\ ix = IxIdle
    /\ collection = <<>>
    /\ call = CallNone
    /\ runs = <<>>
    /\ faults = 0
    /\ sent = SentNone
    /\ dr = DrIdle

\* lines 375-532: the connection, the checks before chunking, the revision,
\* the collection and the chunks.  override is commit_sha_override ("" for
\* None), head is what get_current_commit_sha returns ("" for None), connect
\* is how get_client_and_ef_from_env ends ("ok", or "raise" when it raises:
\* the call is outside the try of index_file), acquire is how
\* get_or_create_collection ends; s.acquire is "none" when it is not called.
IxStart(file, override, head, connect, acquire, is_openai) ==
    LET commit_sha == IF override # "" THEN override ELSE head
        chunks == chunk_file_content_semantic(file.content, Lower(file.suffix),
                      DEFAULT_LINES_PER_CHUNK, DEFAULT_LINE_OVERLAP)
        returned == [IxIdle EXCEPT !.pc = "done", !.file = file,
                                   !.commit_sha_override = override, !.head = head]
        acquiring == [returned EXCEPT !.commit_sha = commit_sha,
                                      !.relative_path = RelativePath(file),
                                      !.acquire = acquire]
    IN  IF connect # "ok" THEN [returned EXCEPT !.pc = "raised"]
        ELSE IF file.kind # "file" THEN returned
        ELSE IF Lower(file.suffix) \notin DEFAULT_SUPPORTED_SUFFIXES THEN returned
        ELSE IF ~StripNonEmpty(file.content) THEN returned
        ELSE IF commit_sha = "" THEN returned
        ELSE IF acquire # "ok" THEN acquiring
        ELSE IF chunks = <<>> THEN acquiring
        ELSE [acquiring EXCEPT !.pc = "prepare",
                               !.is_openai_embedding = is_openai,
                               !.chunks_with_pos = chunks]

\* lines 534-573: one iteration of the loop over the chunks
IxPrepare(s) ==
    LET chunk_index == Len(s.ids_list)
        c == s.chunks_with_pos[chunk_index + 1]
        over == s.is_openai_embedding /\ OverLimit(count_tokens(c[1]))
        chunk_text == IF over
                      THEN truncate_chunk_to_token_limit(c[1], OPENAI_MAX_TOKENS)
                      ELSE c[1]
        chunk_metadata ==
            [file_path |-> s.relative_path, commit_sha |-> s.commit_sha,
             chunk_index |-> chunk_index, start_line |-> c[2] + 1,
             end_line |-> c[3] + 1, truncated |-> chunk_text # c[1]]
        last == chunk_index + 1 = Len(s.chunks_with_pos)
    IN  [s EXCEPT !.ids_list =
                      Append(@, ChunkId(s.relative_path, s.commit_sha, chunk_index)),
                  !.metadatas_list = Append(@, chunk_metadata),
                  !.documents_list = Append(@, chunk_text),
                  !.truncated_count = IF over THEN @ + 1 ELSE @,
                  !.pc = IF ~last THEN "prepare"
                         ELSE IF s.is_openai_embedding THEN "outer" ELSE "bulk"]

\* mutant: the batch of the previous iteration is not emptied
IxOuterKeepsBatch(s) ==
    IF s.i < Len(s.ids_list)
    THEN [s EXCEPT !.pc = "inner"]
    ELSE [s EXCEPT !.pc = "done", !.ret = s.successful_count > 0]

\* mutant: the batch path returns True like the path without batches
IxOuterReturnsTrue(s) ==
    IF s.i < Len(s.ids_list)
    THEN [s EXCEPT !.pc = "inner", !.batch_ids = <<>>, !.batch_metadatas = <<>>,
                   !.batch_documents = <<>>, !.batch_tokens = 0]
    ELSE [s EXCEPT !.pc = "done", !.ret = TRUE]

\* lines 588-593 and 712-716: the test of the outer loop
IxOuter(s) ==
    IF s.i < Len(s.ids_list)
    THEN [s EXCEPT !.pc = "inner", !.batch_ids = <<>>, !.batch_metadatas = <<>>,
                   !.batch_documents = <<>>, !.batch_tokens = 0]
    ELSE [s EXCEPT !.pc = "done", !.ret = s.successful_count > 0]

IxInnerDropsTrigger(s) ==
    IF s.i < Len(s.ids_list) /\ Len(s.batch_ids) < BATCH_SIZE
    THEN LET chunk_tokens == count_tokens(s.documents_list[s.i + 1])
         IN  IF chunk_tokens > OPENAI_MAX_TOKENS
             THEN [s EXCEPT !.pc = IF s.batch_ids # <<>> THEN "ov_flush"
                                   ELSE "ov_single"]
             ELSE IF BudgetExceeded(s.batch_tokens, chunk_tokens, s.batch_ids)
             THEN [s EXCEPT !.pc = "flush", !.i = @ + 1]
             ELSE [s EXCEPT !.batch_ids = Append(@, s.ids_list[s.i + 1]),
                            !.batch_metadatas = Append(@, s.metadatas_list[s.i + 1]),
                            !.batch_documents = Append(@, s.documents_list[s.i + 1]),
                            !.batch_tokens = @ + chunk_tokens,
                            !.i = @ + 1]
    ELSE [s EXCEPT !.pc = IF s.batch_ids # <<>> THEN "flush" ELSE "outer"]

\* lines 596-602, 659-671: one iteration of the inner loop, up to the next
\* upsert
IxInner(s) ==
    IF s.i < Len(s.ids_list) /\ Len(s.batch_ids) < BATCH_SIZE
    THEN LET chunk_tokens == count_tokens(s.documents_list[s.i + 1])
         IN  IF chunk_tokens > OPENAI_MAX_TOKENS
             THEN [s EXCEPT !.pc = IF s.batch_ids # <<>> THEN "ov_flush"
                                   ELSE "ov_single"]
             ELSE IF BudgetExceeded(s.batch_tokens, chunk_tokens, s.batch_ids)
             THEN [s EXCEPT !.pc = "flush"]
             ELSE [s EXCEPT !.batch_ids = Append(@, s.ids_list[s.i + 1]),
                            !.batch_metadatas = Append(@, s.metadatas_list[s.i + 1]),
                            !.batch_documents = Append(@, s.documents_list[s.i + 1]),
                            !.batch_tokens = @ + chunk_tokens,
                            !.i = @ + 1]
    ELSE [s EXCEPT !.pc = IF s.batch_ids # <<>> THEN "flush" ELSE "outer"]

\* the arguments of the collection.upsert call at the program point of s
IxCall(s) ==
    CASE s.pc \in {"flush", "ov_flush"} ->
             [site |-> s.pc, ids |-> s.batch_ids, documents |-> s.batch_documents,
              metadatas |-> s.batch_metadatas]
      [] s.pc \in {"fallback", "ov_fallback"} ->
             [site |-> s.pc, ids |-> <<s.batch_ids[s.j + 1]>>,
              documents |-> <<s.batch_documents[s.j + 1]>>,
              metadatas |-> <<s.batch_metadatas[s.j + 1]>>]
      [] s.pc = "ov_single" ->
             [site |-> s.pc, ids |-> <<s.ids_list[s.i + 1]>>,
              documents |-> <<s.documents_list[s.i + 1]>>,
              metadatas |-> <<s.metadatas_list[s.i + 1]>>]
      [] s.pc = "ov_retry" ->
             [site |-> s.pc, ids |-> <<s.ids_list[s.i + 1]>>,
              documents |-> <<truncate_chunk_to_token_limit(
                                  s.documents_list[s.i + 1], OPENAI_MAX_TOKENS - 200)>>,
              metadatas |-> <<[s.metadatas_list[s.i + 1] EXCEPT !.truncated = TRUE]>>]
      [] s.pc = "bulk" ->
             [site |-> s.pc, ids |-> s.ids_list, documents |-> s.documents_list,
              metadatas |-> s.metadatas_list]

\* mutant: an individual upsert that raises ends the loop over the batch
AfterFallbackUntilFailure(s, o, next) ==
    [s EXCEPT !.successful_count = IF o = "ok" THEN @ + 1 ELSE @,
              !.j = @ + 1,
              !.pc = IF o = "ok" /\ s.j + 1 < Len(s.batch_ids) THEN s.pc ELSE next]

\* lines 613-622, 688-697, 701-710: the locals after the individual upsert
\* of chunk j of the batch ended with outcome o; next is the program point
\* after the loop over the batch
AfterFallback(s, o, next) ==
    [s EXCEPT !.successful_count = IF o = "ok" THEN @ + 1 ELSE @,
              !.j = @ + 1,
              !.pc = IF s.j + 1 < Len(s.batch_ids) THEN s.pc ELSE next]

\* the locals after the upsert call at the program point of s ended with
\* outcome o
IxUpsert(s, o) ==
    LET after_fallback(next) == AfterFallback(s, o, next)
    IN  CASE s.pc = "flush" ->
                 IF o = "ok"
                 THEN [s EXCEPT !.successful_count = @ + Len(s.batch_ids),
                                !.pc = "outer"]
                 ELSE [s EXCEPT !.j = 0, !.pc = "fallback"]
          [] s.pc = "fallback" -> after_fallback("outer")
          [] s.pc = "ov_flush" ->
                 IF o = "ok"
                 THEN [s EXCEPT !.successful_count = @ + Len(s.batch_ids),
                                !.pc = "ov_single"]
                 ELSE [s EXCEPT !.j = 0, !.pc = "ov_fallback"]
          [] s.pc = "ov_fallback" -> after_fallback("ov_single")
          [] s.pc = "ov_single" ->
                 IF o = "ok"
                 THEN [s EXCEPT !.successful_count = @ + 1, !.i = @ + 1,
                                !.pc = "inner"]
                 ELSE IF o = "ctx" THEN [s EXCEPT !.pc = "ov_retry"]
                 ELSE [s EXCEPT !.i = @ + 1, !.pc = "inner"]
          [] s.pc = "ov_retry" ->
                 [s EXCEPT !.successful_count = IF o = "ok" THEN @ + 1 ELSE @,
                           !.i = @ + 1, !.pc = "inner"]
          [] s.pc = "bulk" ->
                 [s EXCEPT !.pc = "done", !.ret = (o = "ok")]

UpsertSites ==
    {"flush", "fallback", "ov_flush", "ov_fallback", "ov_single", "ov_retry", "bulk"}

\* what is kept of a call that has returned
Returned(s, coll, failed) ==
    [file |-> s.file, relative_path |-> s.relative_path, commit_sha |-> s.commit_sha,
     raised |-> s.pc = "raised", acquire |-> s.acquire,
     is_openai_embedding |-> s.is_openai_embedding,
     ids_list |-> s.ids_list, documents_list |-> s.documents_list,
     metadatas_list |-> s.metadatas_list, successful_count |-> s.successful_count,
     ret |-> s.ret, stored |-> coll, faults |-> failed]

(***************************************************************************)
(* The drivers index_git_files and index_paths.  Each calls index_file     *)
(* once per file, without a revision override; a call runs to its end      *)
(* inside one iteration of the driver's loop.                              *)
(***************************************************************************)
\* lines 354-728 from the call to the return: m is [ix, collection, call,
\* faults] and upserts is how every upsert of the call ends
RECURSIVE IxRun(_, _)
IxRun(m, upserts) ==
    IF m.ix.pc \in {"idle", "done", "raised"} THEN m
    ELSE IF m.ix.pc = "prepare" THEN IxRun([m EXCEPT !.ix = IxPrepare(@)], upserts)
    ELSE IF m.ix.pc = "outer" THEN IxRun([m EXCEPT !.ix = IxOuter(@)], upserts)
    ELSE IF m.ix.pc = "inner" THEN IxRun([m EXCEPT !.ix = IxInner(@)], upserts)
    ELSE LET c == IxCall(m.ix)
         IN  IxRun([ix |-> IxUpsert(m.ix, upserts),
                    collection |-> IF upserts = "ok"
                                   THEN Upserted(m.collection, c.ids, c.documents,
                                                 c.metadatas)
                                   ELSE m.collection,
                    call |-> [site |-> c.site, ids |-> c.ids,
                              documents |-> c.documents, outcome |-> upserts],
                    faults |-> IF upserts = "ok" THEN m.faults ELSE m.faults + 1],
                   upserts)

\* lines 761-762 and 808, 819: index_file(file_path, repo_root,
\* collection_name, supported_suffixes) as a driver calls it: the revision
\* is the one found, the collection is the one of the run
DriverIndexFile(d, file, content, connect, upserts, m) ==
    IxRun([m EXCEPT !.ix = IxStart([kind |-> "file", stem |-> file.stem,
                                    suffix |-> file.suffix, content |-> content],
                                   "", d.head, connect,
                                   IF d.mismatch THEN "mismatch" ELSE "ok",
                                   d.is_openai)],
          upserts)

\* lines 746-756: index_git_files up to its loop; ls is how git ls-files
\* ends and files_to_index what it lists
GitStart(files_to_index, ls, head, mismatch, is_openai) ==
    LET called == [DrIdle EXCEPT !.driver = "index_git_files", !.head = head,
                                 !.mismatch = mismatch, !.is_openai = is_openai]
        listed == [called EXCEPT
                      !.paths = [k \in 1..Len(files_to_index) |->
                                    [kind |-> "file", files |-> <<files_to_index[k]>>]]]
    IN  IF ls # "ok" THEN [called EXCEPT !.pc = "done", !.ret = 0]
        ELSE IF files_to_index = <<>> THEN [listed EXCEPT !.pc = "done", !.ret = 0]
        ELSE [listed EXCEPT !.pc = "loop"]

\* lines 761-777: one iteration of the loop of index_git_files on the end
\* res of its index_file call, and the return when the files are exhausted
\* or the call raised
GitFile(d, res) ==
    IF res.pc = "raised" THEN [d EXCEPT !.pc = "done", !.ret = 0]
    ELSE LET counted == [d EXCEPT !.p = @ + 1,
                                  !.indexed_count = IF res.ret THEN @ + 1 ELSE @]
         IN  IF counted.p < Len(d.paths) THEN counted
             ELSE [counted EXCEPT !.pc = "done", !.ret = counted.indexed_count]

\* lines 800-826: index_paths moves on to the next file it will call
\* index_file on, past paths that are neither file nor directory and past
\* directories with no file left, and returns when the paths are exhausted
RECURSIVE PathsSettle(_)
PathsSettle(d) ==
    IF d.p >= Len(d.paths) THEN [d EXCEPT !.pc = "done", !.ret = d.indexed_count]
    ELSE IF d.paths[d.p + 1].kind = "other" \/ d.f >= Len(d.paths[d.p + 1].files)
         THEN PathsSettle([d EXCEPT !.p = @ + 1, !.f = 0])
         ELSE [d EXCEPT !.pc = "loop"]

\* lines 797-800: index_paths up to its first index_file call; paths is the
\* set of paths in the order the loop takes them
PathsStart(paths, head, mismatch, is_openai) ==
    PathsSettle([DrIdle EXCEPT !.driver = "index_paths", !.paths = paths,
                               !.head = head, !.mismatch = mismatch,
                               !.is_openai = is_openai])

\* lines 801-832: index_paths after an index_file call that ended in res: an
\* exception ends the work on the current path, a value is counted
PathsFile(d, res) ==
    IF res.pc = "raised" THEN PathsSettle([d EXCEPT !.p = @ + 1, !.f = 0])
    ELSE PathsSettle([d EXCEPT !.f = @ + 1,
                               !.indexed_count = IF res.ret THEN @ + 1 ELSE @])

\* the file the driver calls index_file on next
DriverFile(d) == d.paths[d.p + 1].files[d.f + 1]

(***************************************************************************)
(* The connection: get_client_and_ef of connection.py and the client of    *)
(* chroma_mcp/utils/chroma_client.py.  A configuration is the host, tenant *)
(* and database asked for; a client is [id, host, tenant, database]: which *)
(* client object it is and what it is connected to.                        *)
(***************************************************************************)
\* chroma_client.py lines 389-474: get_chroma_client(config) in state c;
\* create is how the creation of a client ends, should one be created.
\* The result is the state left and the client returned (NoClient when
\* the function raises).
get_chroma_client(c, config, create) ==
    IF c.chroma_client # NoClient
    THEN [state |-> c, client |-> c.chroma_client]
    ELSE IF create # "ok"
    THEN [state |-> c, client |-> NoClient]
    ELSE LET client == [id |-> c.created + 1, host |-> config.host,
                        tenant |-> config.tenant, database |-> config.database]
         IN  [state |-> [c EXCEPT !.chroma_client = client, !.created = @ + 1],
              client |-> client]

\* connection.py lines 99-312: get_client_and_ef with the arguments config;
\* ef is how get_embedding_function ends.  lru_cache answers a
\* configuration it holds and keeps the value of a call that returns.
get_client_and_ef(c, config, create, ef) ==
    LET called == [c EXCEPT !.calls = @ + 1]
        got == get_chroma_client(called, config, create)
        raised == [config |-> config, client |-> NoClient, raised |-> TRUE]
    IN  IF config \in DOMAIN c.cache
        THEN [called EXCEPT !.last = [config |-> config, client |-> c.cache[config],
                                      raised |-> FALSE]]
        ELSE IF got.client = NoClient THEN [got.state EXCEPT !.last = raised]
        ELSE IF ef # "ok" THEN [got.state EXCEPT !.last = raised]
        ELSE [got.state EXCEPT
                 !.cache = (config :> got.client) @@ @,
                 !.last = [config |-> config, client |-> got.client,
                           raised |-> FALSE]]

\* chroma_client.py lines 477-494: reset_client
reset_client(c) == [c EXCEPT !.chroma_client = NoClient]

(***************************************************************************)
(* Specification of the truncator: inputs from bounded sets, one action    *)
(* per program point.                                                      *)
(***************************************************************************)
TruncProfiles ==
    {Estimate, Tiktoken(1, 0, 0), Tiktoken(3, 0, 0), Tiktoken(1, 30, MARKER_LEN)}

OneLine(n) == Join(<<[k |-> "code", w |-> n]>>)

InitTrunc ==
    /\ tok \in TruncProfiles
    /\ lc = LCIdle
    /\ sm = SemIdle
    /\ IndexIdle
    /\ \E n \in 0..MaxTextLen, m \in (0 - 1)..MaxMaxTokens :
          tr = TruncStart(OneLine(n), m)

TruncateEntry ==
    /\ tr.pc = "entry"
    /\ tr' = TruncEntry(tr)
    /\ UNCHANGED <<tok, lc, sm, indexVars>>

TruncateSearch ==
    /\ tr.pc = "search"
    /\ tr' = TruncSearch(tr)
    /\ UNCHANGED <<tok, lc, sm, indexVars>>

TruncateMark ==
    /\ tr.pc = "mark"
    /\ tr' = TruncMark(tr)
    /\ UNCHANGED <<tok, lc, sm, indexVars>>

TruncateShrink ==
    /\ tr.pc = "shrink"
    /\ tr' = TruncShrink(tr)
    /\ UNCHANGED <<tok, lc, sm, indexVars>>

NextTrunc == TruncateEntry \/ TruncateSearch \/ TruncateMark \/ TruncateShrink

SpecTrunc == InitTrunc /\ [][NextTrunc]_vars /\ WF_vars(NextTrunc)

(***************************************************************************)
(* Specification of the line chunker: every file of at most MaxLines       *)
(* lines over blank and non-blank lines, and the 100-line file of the      *)
(* documented scenario, with window sizes and overlaps around zero.        *)
(***************************************************************************)
EmptyLine == [k |-> "empty", w |-> 0]
BlankLine == [k |-> "ws", w |-> 2]
CodeLine == [k |-> "code", w |-> 5]

LCFiles == UNION {[1..n -> {EmptyLine, CodeLine}] : n \in 0..MaxLines}

TrIdle == TruncStart(Join(<<>>), 0)

InitLineChunk ==
    /\ tok = Estimate
    /\ tr = TrIdle
    /\ sm = SemIdle
    /\ IndexIdle
    /\ \/ \E f \in LCFiles, L \in (0 - 1)..MaxWindow, O \in (0 - 1)..MaxWindow :
             lc = LCStart(Join(f), L, O)
       \/ \E b \in {60, 100} :
             lc = LCStart(Join([i \in 1..101 |->
                                   IF i > b THEN EmptyLine ELSE CodeLine]), 40, 5)

ChunkLoop ==
    /\ lc.pc = "loop"
    /\ Len(lc.chunks_with_pos) <= Len(lc.lines)
    /\ lc' = LCLoop(lc)
    /\ UNCHANGED <<tok, tr, sm, indexVars>>

ChunkFilter ==
    /\ lc.pc = "filter"
    /\ lc' = LCFilter(lc)
    /\ UNCHANGED <<tok, tr, sm, indexVars>>

NextLineChunk == ChunkLoop \/ ChunkFilter

SpecLineChunk == InitLineChunk /\ [][NextLineChunk]_vars /\ WF_vars(NextLineChunk)

(***************************************************************************)
(* Specification of the semantic chunker: every file of at most            *)
(* MaxSemLines lines over the common kinds, every file one line shorter    *)
(* over the other kinds, and files with a declaration followed by about    *)
(* MAX_LINES_PER_SEMANTIC_CHUNK lines.                                     *)
(***************************************************************************)
Line(k, w) == [k |-> k, w |-> w]

CommonLines ==
    {EmptyLine, CodeLine, Line("def", 9), Line("quote", 3), Line("quote1", 8),
     Line("call", 7)}

OtherLines ==
    {BlankLine, CodeLine, Line("class", 10), Line("asyncdef", 15), Line("func", 14)}

Repeat(line, n) == [i \in 1..n |-> line]

LongFiles ==
    {Repeat(pre, p) \o <<Line("def", 9)>> \o Repeat(CodeLine, n) \o Repeat(post, q) :
        pre \in {EmptyLine, CodeLine}, p \in 0..1,
        n \in {MAX_LINES_PER_SEMANTIC_CHUNK - 2, MAX_LINES_PER_SEMANTIC_CHUNK - 1,
               MAX_LINES_PER_SEMANTIC_CHUNK, MAX_LINES_PER_SEMANTIC_CHUNK + 4},
        post \in {EmptyLine, BlankLine}, q \in 0..2}

ShortFiles ==
    UNION {[1..n -> CommonLines] : n \in 0..MaxSemLines}
    \union UNION {[1..n -> OtherLines] : n \in 0..(MaxSemLines - 1)}

SemSuffixes == {".py", ".js", ".go", ".txt"}

SemWindows == {<<1, 0>>, <<2, 1>>}

InitSemantic ==
    /\ tok = Estimate
    /\ tr = TrIdle
    /\ lc = LCIdle
    /\ IndexIdle
    /\ \/ \E f \in ShortFiles, suffix \in SemSuffixes, lo \in SemWindows :
             sm = SemStart(Join(f), suffix, lo[1], lo[2])
       \/ \E f \in LongFiles, suffix \in SemSuffixes :
             sm = SemStart(Join(f), suffix, 40, 5)

SemanticScan ==
    /\ sm.pc = "scan"
    /\ sm' = SemScan(sm)
    /\ UNCHANGED <<tok, tr, lc, indexVars>>

SemanticSplit ==
    /\ sm.pc = "split"
    /\ sm' = SemSplit(sm)
    /\ UNCHANGED <<tok, tr, lc, indexVars>>

SemanticResplit ==
    /\ sm.pc = "resplit"
    /\ sm' = SemResplit(sm)
    /\ UNCHANGED <<tok, tr, lc, indexVars>>

SemanticDecide ==
    /\ sm.pc = "decide"
    /\ sm' = SemDecide(sm)
    /\ UNCHANGED <<tok, tr, lc, indexVars>>

NextSemantic == SemanticScan \/ SemanticSplit \/ SemanticResplit \/ SemanticDecide

SpecSemantic == InitSemantic /\ [][NextSemantic]_vars /\ WF_vars(NextSemantic)

(***************************************************************************)
(* Specification of index_file: up to MaxRuns calls on one path, over      *)
(* every content of at most MaxIndexLines lines whose declaration lines    *)
(* have a few, a few thousand, nearly OPENAI_MAX_TOKENS or more than       *)
(* OPENAI_MAX_TOKENS tokens, and over contents of more than BATCH_SIZE     *)
(* declarations; at most MaxFailures upsert calls raise.                   *)
(***************************************************************************)
MaxIndexLines == 2
MaxRuns == 2
MaxFailures == 2

IndexProfiles == {Estimate, Tiktoken(3, 0, 0), Tiktoken(4, 32000, 500)}

IndexLines ==
    {EmptyLine, CodeLine, Line("def", 9), Line("def", 16000), Line("def", 31000),
     Line("def", 40000)}

IndexContents ==
    {Join(f) : f \in UNION {[1..n -> IndexLines] : n \in 1..MaxIndexLines}}
    \union {Join(Repeat(Line("def", 9), n)) : n \in {BATCH_SIZE + 1, BATCH_SIZE + 2}}

IndexPaths ==
    {[stem |-> "a", suffix |-> ".py"], [stem |-> "n", suffix |-> ".md"],
     [stem |-> "x", suffix |-> ".bin"]}

Revs == {"r1", "r1:0"}

\* how a call finds its surroundings: the path on disk, the revision given
\* or found, the connection and the collection
CallEnv(kind, override, head, connect, acquire) ==
    [kind |-> kind, override |-> override, head |-> head, connect |-> connect,
     acquire |-> acquire]

CallEnvs ==
    {CallEnv("file", r, "", "ok", "ok") : r \in Revs}
    \union {CallEnv("file", "", "", "ok", "ok")}
    \union {CallEnv(k, "r1", "", "ok", "ok") : k \in {"dir", "missing"}}
    \union {CallEnv("file", "r1", "", "ok", a) : a \in {"mismatch", "error"}}
    \union {CallEnv(k, "r1", "", "raise", "ok") : k \in {"file", "missing"}}

\* the content after an edit: a line inserted at the top
Edited(content) == Join(<<CodeLine>> \o content.lines)

InitIndex ==
    /\ tok \in IndexProfiles
    /\ tr = TrIdle
    /\ lc = LCIdle
    /\ sm = SemIdle
    /\ IndexIdle

\* the bookkeeping of a step of index_file: a call that returns is recorded
Recorded(s, coll, failed) ==
    IF s.pc \in {"done", "raised"} THEN Append(runs, Returned(s, coll, failed))
    ELSE runs

IndexFileCall ==
    /\ ix.pc \in {"idle", "done", "raised"}
    /\ Len(runs) < MaxRuns
    /\ \E path \in IndexPaths, content \in IndexContents, env \in CallEnvs,
          is_openai \in BOOLEAN :
          /\ is_openai \/ tok = Estimate
          /\ runs # <<>> =>
                /\ path.stem = runs[1].file.stem /\ path.suffix = runs[1].file.suffix
                /\ content \in {runs[1].file.content, Edited(runs[1].file.content)}
          /\ ix' = IxStart([kind |-> env.kind, stem |-> path.stem,
                            suffix |-> path.suffix, content |-> content],
                           env.override, env.head, env.connect, env.acquire,
                           is_openai)
    /\ runs' = Recorded(ix', collection, faults)
    /\ sent' = SentNone
    /\ UNCHANGED <<tok, tr, lc, sm, dr, cn, collection, call, faults>>

IndexPrepare ==
    /\ ix.pc = "prepare"
    /\ ix' = IxPrepare(ix)
    /\ UNCHANGED <<tok, tr, lc, sm, dr, cn, collection, call, runs, faults, sent>>

BatchOuter ==
    /\ ix.pc = "outer"
    /\ ix' = IxOuter(ix)
    /\ runs' = Recorded(ix', collection, faults)
    /\ UNCHANGED <<tok, tr, lc, sm, dr, cn, collection, call, faults, sent>>

BatchInner ==
    /\ ix.pc = "inner"
    /\ ix' = IxInner(ix)
    /\ UNCHANGED <<tok, tr, lc, sm, dr, cn, collection, call, runs, faults, sent>>

Upsert ==
    /\ ix.pc \in UpsertSites
    /\ \E o \in Outcomes :
          LET c == IxCall(ix)
          IN  /\ o # "ok" => faults < MaxFailures
              /\ ix' = IxUpsert(ix, o)
              /\ call' = [site |-> c.site, ids |-> c.ids, documents |-> c.documents,
                          outcome |-> o]
              /\ collection' = IF o = "ok"
                               THEN Upserted(collection, c.ids, c.documents, c.metadatas)
                               ELSE collection
              /\ faults' = IF o = "ok" THEN faults ELSE faults + 1
              /\ sent' = Sent(sent, c, o)
              /\ runs' = Recorded(ix', collection', faults')
    /\ UNCHANGED <<tok, tr, lc, sm, dr, cn>>

NextIndex == IndexFileCall \/ IndexPrepare \/ BatchOuter \/ BatchInner \/ Upsert

SpecIndex == InitIndex /\ [][NextIndex]_vars /\ WF_vars(NextIndex)

(***************************************************************************)
(* Specification of the drivers: one call of index_git_files or of         *)
(* index_paths on an empty collection, over files of one line each.  Each  *)
(* index_file call may find the connection failing, and its upserts end    *)
(* in one way; the embedding configuration of the collection is the same   *)
(* for the whole run.  runs holds the index_file calls of the driver.      *)
(***************************************************************************)
MaxDriverFiles == 3
MaxDriverPaths == 2

DriverContent == Join(<<CodeLine>>)

\* the files git ls-files lists: distinct files in some order
DriverFileLists ==
    {fs \in UNION {[1..n -> IndexPaths] : n \in 0..MaxDriverFiles} :
        \A a, b \in 1..Len(fs) : fs[a] = fs[b] => a = b}

DriverPaths ==
    {[kind |-> "file", files |-> <<file>>] : file \in IndexPaths}
    \union {[kind |-> "dir", files |-> fs] :
                fs \in {<<>>, <<[stem |-> "a", suffix |-> ".py"],
                                [stem |-> "n", suffix |-> ".md"]>>}}
    \union {[kind |-> "other", files |-> <<>>]}

DriverPathLists == UNION {[1..n -> DriverPaths] : n \in 0..MaxDriverPaths}

IndexMachine == [ix |-> ix, collection |-> collection, call |-> call, faults |-> faults]

InitDriver ==
    /\ tok = Estimate
    /\ tr = TrIdle
    /\ lc = LCIdle
    /\ sm = SemIdle
    /\ IndexIdle

IndexGitFilesCall ==
    /\ dr.pc = "idle"
    /\ \E files_to_index \in DriverFileLists, ls \in {"ok", "fail"},
          head \in {"", "r1"}, mismatch \in BOOLEAN, is_openai \in BOOLEAN :
          dr' = GitStart(files_to_index, ls, head, mismatch, is_openai)
    /\ UNCHANGED <<tok, tr, lc, sm, cn, ix, collection, call, runs, faults, sent>>

IndexPathsCall ==
    /\ dr.pc = "idle"
    /\ \E paths \in DriverPathLists, head \in {"", "r1"}, mismatch \in BOOLEAN,
          is_openai \in BOOLEAN :
          dr' = PathsStart(paths, head, mismatch, is_openai)
    /\ UNCHANGED <<tok, tr, lc, sm, cn, ix, collection, call, runs, faults, sent>>

\* what an index_file call of a driver does to the index_file state
DriverCalls(m) ==
    /\ ix' = m.ix
    /\ collection' = m.collection
    /\ call' = m.call
    /\ faults' = m.faults
    /\ runs' = Append(runs, Returned(m.ix, m.collection, m.faults))

GitLoop ==
    /\ dr.driver = "index_git_files"
    /\ dr.pc = "loop"
    /\ \E connect \in {"ok", "raise"}, upserts \in Outcomes :
          LET m == DriverIndexFile(dr, DriverFile(dr), DriverContent, connect,
                                   upserts, IndexMachine)
          IN  /\ dr' = GitFile(dr, m.ix)
              /\ DriverCalls(m)
    /\ UNCHANGED <<tok, tr, lc, sm, cn, sent>>

PathsLoop ==
    /\ dr.driver = "index_paths"
    /\ dr.pc = "loop"
    /\ \E connect \in {"ok", "raise"}, upserts \in Outcomes :
          LET m == DriverIndexFile(dr, DriverFile(dr), DriverContent, connect,
                                   upserts, IndexMachine)
          IN  /\ dr' = PathsFile(dr, m.ix)
              /\ DriverCalls(m)
    /\ UNCHANGED <<tok, tr, lc, sm, cn, sent>>

NextDriver == IndexGitFilesCall \/ IndexPathsCall \/ GitLoop \/ PathsLoop

SpecDriver == InitDriver /\ [][NextDriver]_vars /\ WF_vars(NextDriver)

(***************************************************************************)
(* Specification of the connection: up to MaxConnCalls calls of            *)
(* get_client_and_ef with configurations that differ in host, tenant or    *)
(* database, and calls of reset_client in between.                         *)
(***************************************************************************)
MaxConnCalls == 3

Configs ==
    [host : {"h1", "h2"}, tenant : {"t1", "t2"}, database : {"d1", "d2"}]

InitConn ==
    /\ tok = Estimate
    /\ tr = TrIdle
    /\ lc = LCIdle
    /\ sm = SemIdle
    /\ IndexIdle

GetClientAndEf ==
    /\ cn.calls < MaxConnCalls
    /\ \E config \in Configs, create \in {"ok", "fail"}, ef \in {"ok", "fail"} :
          cn' = get_client_and_ef(cn, config, create, ef)
    /\ UNCHANGED <<tok, tr, lc, sm, dr, ix, collection, call, runs, faults, sent>>

ResetClient ==
    /\ cn.chroma_client # NoClient
    /\ cn' = reset_client(cn)
    /\ UNCHANGED <<tok, tr, lc, sm, dr, ix, collection, call, runs, faults, sent>>

NextConn == GetClientAndEf \/ ResetClient

SpecConn == InitConn /\ [][NextConn]_vars /\ WF_vars(NextConn)

(***************************************************************************)
(* Claims.                                                                 *)
(***************************************************************************)

\* C3: for any text and any max_tokens >= 1 the truncator terminates, what
\* it returns counts at most max_tokens tokens, and a text that already
\* fits is returned unchanged.
C3_TruncationConvergence ==
    /\ [](tr.pc = "done" /\ tr.max_tokens >= 1 =>
            /\ count_tokens(tr.truncated_text) <= tr.max_tokens
            /\ (count_tokens(tr.chunk_text) <= tr.max_tokens =>
                    tr.truncated_text = tr.chunk_text))
    /\ (tr.pc = "entry" /\ tr.max_tokens >= 1) ~> (tr.pc = "done")

C3_Witness ==
    /\ tr.pc = "done"
    /\ tr.max_tokens >= 1
    /\ count_tokens(tr.chunk_text) > tr.max_tokens
    /\ tr.truncated_text # tr.chunk_text
    /\ tr.best_length > 0

RECURSIVE WindowsFrom(_, _, _, _)
WindowsFrom(k, N, L, A) ==
    IF k * A + L >= N
    THEN <<<<k * A, N - 1>>>>
    ELSE <<<<k * A, k * A + L - 1>>>> \o WindowsFrom(k + 1, N, L, A)

Spans(chunks) == [i \in 1..Len(chunks) |-> <<chunks[i][2], chunks[i][3]>>]

\* C7: for L >= 1, 0 <= overlap < L and N >= 1 lines the windows generated
\* before filtering start at 0, A, 2A, ... with A = L - overlap, window k is
\* [kA, min(kA + L, N) - 1], the last one is the first that ends at N - 1,
\* every line is covered, and N = 100, L = 40, overlap = 5 gives exactly
\* [0,39], [35,74], [70,99].
C7_LineWindows ==
    LET N == Len(lc.lines)
        L == lc.lines_per_chunk
        O == lc.line_overlap
        ch == lc.chunks_with_pos
    IN  (lc.pc \in {"filter", "done"} /\ N >= 1 /\ L >= 1 /\ O >= 0 /\ O < L) =>
            /\ Spans(ch) = WindowsFrom(0, N, L, L - O)
            /\ \A i \in 1..Len(ch) :
                   ch[i][1] = Join(SubSeq(lc.lines, ch[i][2] + 1, ch[i][3] + 1))
            /\ \A n \in 0..(N - 1) :
                   \E i \in 1..Len(ch) : ch[i][2] <= n /\ n <= ch[i][3]
            /\ (N = 100 /\ L = 40 /\ O = 5 =>
                    Spans(ch) = <<<<0, 39>>, <<35, 74>>, <<70, 99>>>>)

C7_Witness ==
    /\ lc.pc = "done"
    /\ Len(lc.lines) = 100 /\ lc.lines_per_chunk = 40 /\ lc.line_overlap = 5
    /\ Len(lc.chunks_with_pos) = 3
    /\ Len(lc.result) = 2

\* C8: with overlap >= lines_per_chunk the chunker terminates: each
\* iteration that does not end the loop moves the window start forward by
\* exactly 1, and the loop is left for good.
C8_DegenerateOverlapTerminates ==
    /\ [][(lc.pc = "loop" /\ lc'.pc = "loop"
             /\ lc.line_overlap >= lc.lines_per_chunk) =>
            lc'.current_line_idx = lc.current_line_idx + 1]_vars
    /\ (lc.pc = "loop" /\ lc.line_overlap >= lc.lines_per_chunk) ~> (lc.pc = "done")

C8_Witness ==
    /\ lc.pc = "done"
    /\ lc.lines_per_chunk = 5 /\ lc.line_overlap = 5
    /\ Len(lc.lines) > lc.lines_per_chunk
    /\ Len(lc.chunks_with_pos) > 1
    /\ lc.current_line_idx > 0

\* The bound on the iterations in ChunkLoop never cuts a run of the code.
LoopBoundNotReached ==
    lc.pc = "loop" => Len(lc.chunks_with_pos) <= Len(lc.lines)

\* the boundary lines of the file being chunked, as a set
DetectedBoundaries == Range(FindBoundaries(sm.lines, sm.suffix))

\* C9: for a code file without any boundary line _chunk_code_semantic
\* returns no chunks and chunk_file_content_semantic returns what
\* chunk_file_content(content, lines_per_chunk, line_overlap) returns; the
\* same holds for every file whose suffix is not a code suffix.
C9_SemanticFallback ==
    (sm.pc = "done" /\ (sm.suffix \notin CodeSuffixes \/ DetectedBoundaries = {})) =>
        /\ sm.suffix \in CodeSuffixes =>
               /\ sm.result_chunks = <<>>
               /\ _chunk_code_semantic(sm.lines, sm.suffix) = <<>>
        /\ sm.result =
               chunk_file_content(sm.content, sm.lines_per_chunk, sm.line_overlap)

C9_Witness ==
    /\ sm.pc = "done"
    /\ sm.suffix = ".py"
    /\ DetectedBoundaries = {}
    /\ \E i \in 1..Len(sm.lines) : sm.lines[i].k = "def"
    /\ Len(sm.result) >= 2

\* C10 as claimed: with zero or exactly one boundary line in a code file the
\* result is the line-windowed output.
C10_AtMostOneBoundaryFallsBack ==
    (sm.pc = "done" /\ sm.suffix \in CodeSuffixes
        /\ Cardinality(DetectedBoundaries) <= 1) =>
        sm.result = chunk_file_content(sm.content, sm.lines_per_chunk, sm.line_overlap)

\* C10 as amended: with zero or exactly one boundary line the result is the
\* line-windowed output when _chunk_code_semantic yields at most one chunk,
\* and the semantic chunks when it yields two or more; in a file of at most
\* MAX_LINES_PER_SEMANTIC_CHUNK lines with one boundary it yields two
\* exactly when a line that is not blank precedes the boundary.
C10_AtMostOneChunkFallsBack ==
    (sm.pc = "done" /\ sm.suffix \in CodeSuffixes
        /\ Cardinality(DetectedBoundaries) <= 1) =>
        /\ Len(sm.result_chunks) <= 1 =>
               sm.result = chunk_file_content(sm.content, sm.lines_per_chunk,
                                              sm.line_overlap)
        /\ Len(sm.result_chunks) >= 2 => sm.result = sm.result_chunks
        /\ (Cardinality(DetectedBoundaries) = 1
                /\ Len(sm.lines) <= MAX_LINES_PER_SEMANTIC_CHUNK) =>
               (Len(sm.result_chunks) >= 2 <=>
                    \E b \in DetectedBoundaries : \E i \in 1..b :
                        sm.lines[i].k \notin {"empty", "ws"})

C10_Witness ==
    /\ sm.pc = "done"
    /\ sm.suffix \in CodeSuffixes
    /\ Cardinality(DetectedBoundaries) = 1
    /\ Len(sm.result_chunks) = 2
    /\ sm.result = sm.result_chunks
    /\ sm.result # chunk_file_content(sm.content, sm.lines_per_chunk, sm.line_overlap)

\* sum(count_tokens(d) for d in documents)
RECURSIVE TokenSum(_)
TokenSum(documents) ==
    IF documents = <<>> THEN 0
    ELSE count_tokens(Head(documents)) + TokenSum(Tail(documents))

\* the latest upsert call submitted a batch assembled by the batch loop
BatchSubmitted == call.site \in {"flush", "ov_flush"}

\* C1 as claimed: every batch the batch loop submits, one-chunk batches
\* included, is not empty, holds at most BATCH_SIZE chunks and has a token
\* sum of at most max_tokens_per_batch.
C1_BatchWithinBudget ==
    BatchSubmitted =>
        /\ Len(call.ids) >= 1
        /\ Len(call.ids) <= BATCH_SIZE
        /\ TokenSum(call.documents) <= max_tokens_per_batch

\* C1 as amended: every batch the batch loop submits is not empty and holds
\* at most BATCH_SIZE chunks; its token sum is at most max_tokens_per_batch
\* when it holds two or more chunks, and at most OPENAI_MAX_TOKENS when it
\* holds one.
C1_BatchWithinBudgetUnlessAlone ==
    BatchSubmitted =>
        /\ Len(call.ids) \in 1..BATCH_SIZE
        /\ Len(call.documents) = Len(call.ids)
        /\ Len(call.ids) >= 2 => TokenSum(call.documents) <= max_tokens_per_batch
        /\ Len(call.ids) = 1 => TokenSum(call.documents) <= OPENAI_MAX_TOKENS

C1_Witness ==
    /\ call.site = "flush"
    /\ Len(call.ids) = 1
    /\ TokenSum(call.documents) > max_tokens_per_batch
    /\ Len(ix.ids_list) = 2
    /\ ix.i = 1

\* C2: with the OpenAI embedding function every document handed to
\* collection.upsert, in a batch, alone or in a retry, counts at most
\* OPENAI_MAX_TOKENS tokens.
C2_DocumentsWithinCeiling ==
    /\ call.site \notin {"none", "bulk"} =>
           \A k \in 1..Len(call.documents) :
               count_tokens(call.documents[k]) <= OPENAI_MAX_TOKENS
    /\ (ix.is_openai_embedding /\ ix.pc \in UpsertSites) =>
           \A k \in 1..Len(IxCall(ix).documents) :
               count_tokens(IxCall(ix).documents[k]) <= OPENAI_MAX_TOKENS
    /\ ix.is_openai_embedding =>
           \A k \in 1..Len(ix.documents_list) :
               count_tokens(truncate_chunk_to_token_limit(
                   ix.documents_list[k], OPENAI_MAX_TOKENS - 200)) <= OPENAI_MAX_TOKENS

C2_Witness ==
    /\ ix.is_openai_embedding
    /\ call.site = "flush"
    /\ call.outcome = "ok"
    /\ \E k \in 1..Len(ix.chunks_with_pos) :
          /\ count_tokens(ix.chunks_with_pos[k][1]) > OPENAI_MAX_TOKENS
          /\ ix.documents_list[k] # ix.chunks_with_pos[k][1]
          /\ ix.documents_list[k] \in Range(call.documents)
          /\ ix.ids_list[k] \in DOMAIN collection

\* run k of runs reached the loop over the chunks
Chunked(k) == runs[k].ids_list # <<>>

\* no upsert call of run k raised
Clean(k) == runs[k].faults = IF k = 1 THEN 0 ELSE runs[k - 1].faults

\* runs a and b had the same path, revision, content and embedding function
SameInput(a, b) ==
    /\ Chunked(a) /\ Chunked(b)
    /\ runs[a].relative_path = runs[b].relative_path
    /\ runs[a].commit_sha = runs[b].commit_sha
    /\ runs[a].file.content = runs[b].file.content
    /\ runs[a].is_openai_embedding = runs[b].is_openai_embedding

\* C4: two runs over the same path, revision and content build the same ids
\* with the same text and line span per id; when no upsert of two such
\* consecutive runs raises, the second run stores its documents under the
\* keys the first one stored and the key set does not change.
C4_Idempotent ==
    \A a \in 1..Len(runs), b \in 1..Len(runs) :
        (a < b /\ SameInput(a, b)) =>
            /\ runs[b].ids_list = runs[a].ids_list
            /\ runs[b].documents_list = runs[a].documents_list
            /\ runs[b].metadatas_list = runs[a].metadatas_list
            /\ (b = a + 1 /\ Clean(a) /\ Clean(b)) =>
                   /\ DOMAIN runs[b].stored = DOMAIN runs[a].stored
                   /\ Range(runs[b].ids_list) \subseteq DOMAIN runs[a].stored
                   /\ \A k \in 1..Len(runs[b].ids_list) :
                          runs[b].stored[runs[b].ids_list[k]].document =
                              runs[b].documents_list[k]

C4_Witness ==
    /\ Len(runs) = 2
    /\ SameInput(1, 2)
    /\ Clean(1) /\ Clean(2)
    /\ runs[1].ret /\ runs[2].ret
    /\ Len(runs[2].ids_list) >= 2
    /\ Cardinality(DOMAIN runs[2].stored) = Len(runs[2].ids_list)

\* C5: chunk k (from 0) of a run has the id path:revision:k, k running over
\* the chunks that survived the whitespace filter without a gap; the ids of
\* a run are pairwise distinct, and ids built for the same path at two
\* different revisions are never equal.
C5_ChunkIds ==
    /\ \A k \in 1..Len(ix.ids_list) :
           /\ ix.ids_list[k] =
                  ix.relative_path \o ":" \o ix.commit_sha \o ":" \o ToString(k - 1)
           /\ ix.metadatas_list[k].chunk_index = k - 1
           /\ StripNonEmpty(ix.chunks_with_pos[k][1])
    /\ ix.pc \notin {"idle", "prepare"} => Len(ix.ids_list) = Len(ix.chunks_with_pos)
    /\ \A k \in 1..Len(ix.ids_list), l \in 1..Len(ix.ids_list) :
           k # l => ix.ids_list[k] # ix.ids_list[l]
    /\ \A a \in 1..Len(runs) :
           (runs[a].relative_path = ix.relative_path
               /\ runs[a].commit_sha # ix.commit_sha) =>
               Range(runs[a].ids_list) \intersect Range(ix.ids_list) = {}

C5_Witness ==
    /\ Len(runs) = 2
    /\ runs[1].relative_path = runs[2].relative_path
    /\ runs[1].commit_sha = "r1" /\ runs[2].commit_sha = "r1:0"
    /\ Len(runs[1].ids_list) >= 2
    /\ Len(runs[2].ids_list) >= 2
    /\ runs[2].ids_list[1] = "a.py:r1:0:0"

\* C6: a step of index_file never removes a key of the collection and
\* changes only what is stored under ids of the current run; whatever the
\* collection held for another revision of the path before a run is still
\* there unchanged when the run has returned, whether or not upserts raised.
C6_OnlyUpserts ==
    /\ [][\A id \in DOMAIN collection :
              /\ id \in DOMAIN collection'
              /\ collection'[id] # collection[id] =>
                     id \in Range(ix.ids_list) \intersect Range(call'.ids)]_vars
    /\ [](\A b \in 2..Len(runs) :
              \A id \in DOMAIN runs[b - 1].stored :
                  LET was == runs[b - 1].stored[id]
                  IN  ~(was.metadata.file_path = runs[b].relative_path
                          /\ was.metadata.commit_sha = runs[b].commit_sha) =>
                          /\ id \in DOMAIN runs[b].stored
                          /\ runs[b].stored[id] = was)

C6_Witness ==
    /\ Len(runs) = 2
    /\ Chunked(1) /\ Chunked(2)
    /\ runs[1].relative_path = runs[2].relative_path
    /\ runs[1].commit_sha # runs[2].commit_sha
    /\ runs[1].successful_count > 0
    /\ runs[2].faults > runs[1].faults
    /\ runs[2].successful_count > 0
    /\ runs[2].successful_count < Len(runs[2].ids_list)
    /\ Cardinality(DOMAIN runs[2].stored) =
           runs[1].successful_count + runs[2].successful_count

\* C11: every chunk of _chunk_code_semantic spans at most
\* MAX_LINES_PER_SEMANTIC_CHUNK lines, and lies, in the coordinates of the
\* file, inside the candidate between two boundaries it was cut from.
C11_SemanticChunksAtMost100Lines ==
    sm.pc \in {"decide", "done"} =>
        \A k \in 1..Len(sm.result_chunks) :
            LET c == sm.result_chunks[k]
            IN  /\ c[3] - c[2] + 1 <= MAX_LINES_PER_SEMANTIC_CHUNK
                /\ \E n \in 1..Len(sm.chunks) :
                       /\ sm.chunks[n][2] <= c[2]
                       /\ c[2] <= c[3]
                       /\ c[3] <= sm.chunks[n][3]

\* C12: when a batch upsert raises, the chunks of the batch are submitted
\* alone, in batch order and each once, whatever the outcome of the
\* individual upserts before; a chunk whose individual upsert succeeds is
\* stored and counted, one whose upsert raises is not; after the last chunk
\* of the batch the outer loop goes on with the next batch, and the call
\* returns only when every chunk has been attempted.
C12_BatchFailureFallback ==
    /\ [][(ix.pc = "flush" /\ call'.outcome # "ok") =>
              /\ ix'.pc = "fallback" /\ ix'.j = 0
              /\ ix'.batch_ids = ix.batch_ids
              /\ ix'.batch_documents = ix.batch_documents
              /\ ix'.successful_count = ix.successful_count
              /\ collection' = collection]_vars
    /\ [][ix.pc = "fallback" =>
              LET id == ix.batch_ids[ix.j + 1]
              IN  /\ call'.site = "fallback"
                  /\ call'.ids = <<id>>
                  /\ call'.documents = <<ix.batch_documents[ix.j + 1]>>
                  /\ ix'.batch_ids = ix.batch_ids
                  /\ ix'.batch_documents = ix.batch_documents
                  /\ ix'.i = ix.i
                  /\ ix'.j = ix.j + 1
                  /\ ix'.pc = IF ix.j + 1 < Len(ix.batch_ids) THEN "fallback"
                              ELSE "outer"
                  /\ call'.outcome = "ok" =>
                         /\ ix'.successful_count = ix.successful_count + 1
                         /\ id \in DOMAIN collection'
                         /\ collection'[id].document = ix.batch_documents[ix.j + 1]
                  /\ call'.outcome # "ok" =>
                         /\ ix'.successful_count = ix.successful_count
                         /\ collection' = collection]_vars
    /\ [][(ix.pc = "outer" /\ ix.i < Len(ix.ids_list)) =>
              (ix'.pc = "inner" /\ ix'.batch_ids = <<>>)]_vars
    /\ [](ix.pc = "done" /\ ix.is_openai_embedding => ix.i = Len(ix.ids_list))

C12_Witness ==
    /\ ix.pc = "done"
    /\ Len(runs) = 1
    /\ Len(ix.ids_list) = BATCH_SIZE + 2
    /\ faults = 2
    /\ ix.successful_count = BATCH_SIZE + 1
    /\ \E k \in 1..BATCH_SIZE :
          /\ ix.ids_list[k] \notin DOMAIN collection
          /\ \A l \in 1..(BATCH_SIZE + 2) : l # k => ix.ids_list[l] \in DOMAIN collection
    /\ call.site = "flush" /\ call.outcome = "ok" /\ Len(call.ids) = 2

\* what the collection held when run b was called
Before(b) == IF b = 1 THEN <<>> ELSE runs[b - 1].stored

\* the ids of run b that the collection holds when the run has returned
StoredIds(b) == Range(runs[b].ids_list) \intersect DOMAIN runs[b].stored

\* C13: index_file returns True exactly when at least one chunk of the file
\* was upserted successfully during the call: True when some upserts raise
\* and one succeeds, False when every upsert raises or none is made.  On
\* the batch path successful_count starts at 0 and grows by the number of
\* documents of each upsert that does not raise, and the value returned is
\* successful_count > 0; on the other path the value returned is whether
\* the one upsert did not raise.  On calls none of whose ids was in the
\* collection before, True is returned exactly when the collection holds
\* an id of the call afterwards.
C13_TrueIffSomeChunkStored ==
    /\ [](ix.pc = "prepare" => ix.successful_count = 0)
    /\ [][ix.pc \in UpsertSites \ {"bulk"} =>
              ix'.successful_count =
                  ix.successful_count
                      + (IF call'.outcome = "ok" THEN Len(call'.ids) ELSE 0)]_vars
    /\ [][ix.pc \in {"prepare", "outer", "inner"} =>
              ix'.successful_count = ix.successful_count]_vars
    /\ [][ix.pc = "bulk" =>
              (ix'.pc = "done" /\ ix'.ret = (call'.outcome = "ok"))]_vars
    /\ [](ix.pc = "done" =>
              /\ ix.is_openai_embedding => ix.ret = (ix.successful_count > 0)
              /\ ix.ids_list = <<>> => ~ix.ret)
    /\ [](\A b \in 1..Len(runs) :
              Range(runs[b].ids_list) \intersect DOMAIN Before(b) = {} =>
                  /\ runs[b].ret <=> StoredIds(b) # {}
                  /\ runs[b].is_openai_embedding =>
                         runs[b].successful_count = Cardinality(StoredIds(b)))

C13_Witness ==
    /\ Len(runs) = 2
    /\ runs[1].ret /\ runs[1].faults = 0
    /\ runs[2].commit_sha # runs[1].commit_sha
    /\ Len(runs[2].ids_list) = 1
    /\ runs[2].faults = 2
    /\ ~runs[2].ret
    /\ StoredIds(2) = {}
    /\ runs[2].stored = runs[1].stored


\* the inputs index_file skips: no such file or a directory, a suffix that is
\* not supported, content that is empty once stripped, no revision given
\* and none found
Skipped(s) ==
    \/ s.file.kind # "file"
    \/ Lower(s.file.suffix) \notin DEFAULT_SUPPORTED_SUFFIXES
    \/ ~StripNonEmpty(s.file.content)
    \/ s.commit_sha_override = "" /\ s.head = ""

\* C14: if the file does not exist, is a directory, has a suffix outside
\* supported_suffixes or only whitespace content, or if no revision override
\* is given and the revision cannot be resolved, index_file returns False
\* without raising, without acquiring the collection and without any
\* upsert, and the content of the collection is unchanged: the step that
\* takes such a call is its only step, it ends the call at "done" with ret
\* FALSE and leaves the collection and the last upsert as they were.
C14_SkipReturnsFalse ==
    [][ix' # ix /\ ix'.pc # "idle" /\ Skipped(ix') =>
           /\ ix'.pc = "done"
           /\ ~ix'.ret
           /\ ix'.acquire = "none"
           /\ ix'.ids_list = <<>>
           /\ call' = call
           /\ collection' = collection]_vars



\* the files of the set a driver was given, in the order it walks them
RECURSIVE FilesOf(_)
FilesOf(paths) ==
    IF paths = <<>> THEN <<>> ELSE Head(paths).files \o FilesOf(Tail(paths))

\* the files index_file was called on, in order
Attempted == [k \in 1..Len(runs) |->
                 [stem |-> runs[k].file.stem, suffix |-> runs[k].file.suffix]]

\* C15: when acquiring the collection fails with an embedding-configuration
\* mismatch while index_paths or index_git_files is running, the whole run
\* for that collection is aborted: no later file of the set is attempted
\* against that collection, so an index_file call that met the mismatch is
\* the last call of the driver.
C15_MismatchAbortsRun ==
    \A k \in 1..Len(runs) : runs[k].acquire = "mismatch" => k = Len(runs)

\* C16: in index_git_files and index_paths every file of the set is
\* attempted whatever happened to the files before it, also when
\* index_file raised, and the count returned is the number of files for
\* which index_file returned True: when the driver has returned, the files
\* index_file was called on are the files of the set, and ret is the
\* number of calls that returned True.
C16_EveryFileAttemptedAndCounted ==
    dr.pc = "done" =>
        /\ Attempted = FilesOf(dr.paths)
        /\ dr.ret = Cardinality({k \in 1..Len(runs) : runs[k].ret})



\* C17: when an upsert fails with a fatal provider error (authentication
\* or permission), indexing aborts immediately: the failed batch or chunk
\* is not retried, its chunks are not resubmitted individually and no
\* further upsert is attempted for the file, so the step of an upsert that
\* ends in such an error ends the index_file call.
C17_FatalErrorAborts ==
    [][ix.pc \in UpsertSites /\ ix' # ix /\ call'.outcome = "auth" =>
           ix'.pc = "done"]_vars



\* what a client is connected to
ConnectedTo(client) ==
    [host |-> client.host, tenant |-> client.tenant, database |-> client.database]

\* C18: there is one shared connection per distinct configuration: repeated
\* get_client_and_ef calls with the same configuration return the same
\* client, and calls with configurations that differ in host, tenant or
\* database return clients connected to their own host, tenant and
\* database, in whatever order the configurations are first requested:
\* a call that returns for a configuration returned before gives the client
\* it gave then, the client a call returns is connected to the
\* configuration asked for, and two configurations never have the same
\* client.
C18_OneConnectionPerConfiguration ==
    /\ [][cn'.calls # cn.calls /\ ~cn'.last.raised
              /\ cn'.last.config \in DOMAIN cn.cache =>
              cn'.last.client = cn.cache[cn'.last.config]]_vars
    /\ [](cn.calls > 0 /\ ~cn.last.raised =>
              ConnectedTo(cn.last.client) = cn.last.config)
    /\ [](\A a, b \in DOMAIN cn.cache :
              cn.cache[a].id = cn.cache[b].id => a = b)



\* C19: the estimate strategy of count_tokens returns ceil(len(text) * 0.25)
\* for every text, so it is a non-negative integer that is never smaller
\* than len(text) / 4: for the text the truncator is called on, counted by
\* the estimate, the count is the quarter of the length rounded up and four
\* times the count is at least the length.
C19_EstimateIsCeiling ==
    ~tok.tiktoken =>
        LET n == TextLen(tr.chunk_text)
            count == count_tokens(tr.chunk_text)
        IN  /\ count = (n + 3) \div 4
            /\ count >= 0
            /\ 4 * count >= n



\* C20: on the token-ceiling path, every chunk's count being at most the
\* provider maximum, the submitted batches are consecutive runs of the
\* chunk sequence in original order and every chunk is in exactly one
\* batch; a batch is closed only when it holds BATCH_SIZE chunks, when
\* adding the next chunk would make its token sum exceed
\* max_tokens_per_batch, or when the chunks are exhausted, and the chunk
\* that triggered the flush is the first chunk of the next batch.  The
\* batch under assembly is always the run of chunks that ends at i; a batch
\* is flushed not empty, for one of the three reasons, and as assembled;
\* the next batch starts empty at the same i and takes chunk i first; the
\* call returns with all chunks passed.
C20_BatchesAreConsecutiveRuns ==
    /\ [](ix.is_openai_embedding =>
              LET n == Len(ix.batch_ids)
              IN  /\ n <= ix.i
                  /\ ix.i <= Len(ix.ids_list)
                  /\ ix.batch_ids = SubSeq(ix.ids_list, ix.i - n + 1, ix.i)
                  /\ ix.batch_documents = SubSeq(ix.documents_list, ix.i - n + 1, ix.i)
                  /\ ix.batch_metadatas = SubSeq(ix.metadatas_list, ix.i - n + 1, ix.i)
                  /\ ix.batch_tokens = TokenSum(ix.batch_documents))
    /\ [](ix.pc = "flush" =>
              /\ ix.batch_ids # <<>>
              /\ \/ Len(ix.batch_ids) = BATCH_SIZE
                 \/ ix.i = Len(ix.ids_list)
                 \/ ix.batch_tokens + count_tokens(ix.documents_list[ix.i + 1])
                        > max_tokens_per_batch)
    /\ [][ix.pc = "flush" /\ ix' # ix =>
              /\ call'.ids = ix.batch_ids
              /\ call'.documents = ix.batch_documents]_vars
    /\ [][ix.pc = "outer" /\ ix'.pc = "inner" =>
              /\ ix'.batch_ids = <<>>
              /\ ix'.i = ix.i]_vars
    /\ [][ix.pc = "inner" /\ ix.batch_ids = <<>> /\ ix' # ix =>
              /\ ix'.batch_ids = <<ix.ids_list[ix.i + 1]>>
              /\ ix'.i = ix.i + 1
              /\ ix'.pc = "inner"]_vars
    /\ [](ix.pc = "done" /\ ix.is_openai_embedding => ix.i = Len(ix.ids_list))

\* a file of two chunks was indexed in two batches of one chunk, the first
\* closed by the token budget with the other chunk still to come
C20_Witness ==
    /\ ix.pc = "done"
    /\ ix.is_openai_embedding
    /\ Len(ix.ids_list) = 2
    /\ ix.successful_count = 2
    /\ call.site = "flush"
    /\ call.outcome = "ok"
    /\ call.ids = <<ix.ids_list[2]>>
    /\ faults = 0
    /\ TokenSum(ix.documents_list) > max_tokens_per_batch



\* the counter in use is monotone in the prefix length
MonotoneCounter == tok.dipAt = 0

\* C22: for a token counter that is monotone in the prefix length, a text
\* whose count exceeds max_tokens and max_tokens >= 0, the prefix length
\* found by the binary search is the largest k in [0, len(text)] such that
\* count_tokens(text[:k]) <= max_tokens: when the search has ended,
\* text[:best_length] fits and text[:best_length + 1] does not.
C22_SearchFindsLongestPrefix ==
    tr.pc = "mark" /\ MonotoneCounter /\ tr.max_tokens >= 0 =>
        /\ tr.best_length \in 0..TextLen(tr.chunk_text)
        /\ \A k \in 0..TextLen(tr.chunk_text) :
               count_tokens(Slice(tr.chunk_text, k)) <= tr.max_tokens
                   <=> k <= tr.best_length

C22_Witness ==
    /\ tr.pc = "mark"
    /\ MonotoneCounter
    /\ tok.tiktoken
    /\ tok.cpt = 3
    /\ tr.max_tokens = 5
    /\ tr.best_length = 15
    /\ TextLen(tr.chunk_text) = MaxTextLen

\* C23: when the truncator shortens a text, the result is the chosen
\* prefix followed by the truncation marker if and only if
\* count_tokens(prefix + marker) <= max_tokens; otherwise the marker is
\* omitted and the result is a bare prefix of the input that fits.  A text
\* that is not shortened never carries the marker.  The step after the
\* search returns the noted prefix when it fits and goes on with the bare
\* prefix when it does not; what is returned after that is a bare prefix
\* that fits; a text that fits from the start is returned as it is.
C23_MarkerIffItFits ==
    /\ [][tr.pc = "mark" /\ tr' # tr =>
              LET prefix == Slice(tr.chunk_text, tr.best_length)
              IN  IF count_tokens(AppendMarker(prefix)) <= tr.max_tokens
                  THEN /\ tr'.pc = "done"
                       /\ tr'.truncated_text = AppendMarker(prefix)
                  ELSE /\ tr'.pc = "shrink"
                       /\ tr'.truncated_text = prefix]_vars
    /\ [][tr.pc = "shrink" /\ tr'.pc = "done" =>
              /\ tr'.truncated_text = tr.truncated_text
              /\ tr.truncated_text.mk = 0
              /\ tr.truncated_text = Slice(tr.chunk_text, tr.best_length)
              /\ tr.best_length < TextLen(tr.chunk_text)
              /\ count_tokens(tr.truncated_text) <= tr.max_tokens]_vars
    /\ [][tr.pc = "entry" /\ tr'.pc = "done" =>
              /\ tr'.truncated_text = tr.chunk_text
              /\ tr'.truncated_text.mk = 0]_vars

\* a text was shortened and returned with the marker
C23_Witness ==
    /\ tr.pc = "done"
    /\ count_tokens(tr.chunk_text) > tr.max_tokens
    /\ tr.truncated_text.mk = MARKER_LEN
    /\ tr.truncated_text.src > 0
    /\ count_tokens(tr.truncated_text) <= tr.max_tokens

\* C24: the 5% shrink loop of the truncator is bounded: for every text and
\* every integer max_tokens, 0 and negative values included, it performs
\* at most a fixed number of iterations and the function returns, so every
\* call of the truncator reaches its return.
C24_TruncatorReturns ==
    <>(tr.pc = "done")

\* C30: with the estimate counter and max_tokens >= 0, whenever the
\* truncator shortens a text the returned text is exactly the bare prefix
\* chosen by the binary search: the chosen prefix has a count equal to
\* max_tokens, so the text with the marker exceeds max_tokens, the marker
\* is removed, and the shrink loop body runs zero times.
C30_EstimateReturnsBarePrefix ==
    /\ [][~tok.tiktoken /\ tr.max_tokens >= 0 /\ tr.pc = "mark" /\ tr' # tr =>
              LET prefix == Slice(tr.chunk_text, tr.best_length)
              IN  /\ count_tokens(prefix) = tr.max_tokens
                  /\ count_tokens(AppendMarker(prefix)) > tr.max_tokens
                  /\ tr'.pc = "shrink"
                  /\ tr'.truncated_text = prefix
                  /\ tr'.best_length = tr.best_length]_vars
    /\ [][~tok.tiktoken /\ tr.max_tokens >= 0 /\ tr.pc = "shrink" /\ tr' # tr =>
              /\ tr'.pc = "done"
              /\ tr'.best_length = tr.best_length
              /\ tr'.truncated_text = Slice(tr.chunk_text, tr.best_length)]_vars
    /\ [](~tok.tiktoken /\ tr.max_tokens >= 0 /\ tr.pc = "done"
              /\ count_tokens(tr.chunk_text) > tr.max_tokens =>
              /\ tr.truncated_text.mk = 0
              /\ tr.truncated_text.src = 4 * tr.max_tokens + 3)

C30_Witness ==
    /\ tr.pc = "done"
    /\ ~tok.tiktoken
    /\ tr.max_tokens = 7
    /\ TextLen(tr.chunk_text) = MaxTextLen
    /\ tr.truncated_text = Slice(tr.chunk_text, 31)



\* line i (0-based) of a .py file lies inside a triple-quoted docstring
\* region: it opens or closes one, or an odd number of lines before it open
\* or close one; a docstring that opens and closes on one line is a region
\* of that line alone
InDocstringRegion(lines, i) ==
    \/ StartsTripleQuote(lines[i + 1])
    \/ Cardinality({j \in 1..i : lines[j].k = "quote"}) % 2 = 1

\* C25: in a .py file, a line matching a class or function declaration
\* pattern is recorded as a boundary if and only if it lies outside every
\* triple-quoted docstring region: declaration-like lines inside a
\* docstring are never boundaries, and every declaration line that follows
\* a closed docstring, a docstring that opens and closes on one line
\* included, is a boundary.
C25_BoundariesOutsideDocstrings ==
    sm.suffix = ".py" /\ sm.pc \in {"split", "resplit", "decide", "done"} =>
        \A i \in 0..(Len(sm.lines) - 1) :
            i \in DetectedBoundaries
                <=> /\ LineBoundaries(sm.lines[i + 1], i, ".py") # <<>>
                    /\ ~InDocstringRegion(sm.lines, i)



\* a line that str.strip() empties
BlankAt(lines, i) == lines[i + 1].k \in {"empty", "ws"}

\* C29: when _chunk_code_semantic detects at least one boundary, the
\* candidate chunks it builds before the oversize re-splitting are pairwise
\* disjoint line ranges in strictly increasing order, each starting at
\* line 0 or at a boundary line and ending just before the next boundary
\* or at the last line; together they contain every line of the file
\* except ranges made only of blank lines, and no candidate is empty or
\* whitespace-only.
C29_CandidatesPartitionTheFile ==
    sm.pc \in {"resplit", "decide", "done"} /\ sm.suffix \in CodeSuffixes
        /\ DetectedBoundaries # {} =>
        LET N == Len(sm.lines)
            starts == {0} \union DetectedBoundaries
        IN  /\ \A n \in 1..Len(sm.chunks) :
                   LET c == sm.chunks[n]
                   IN  /\ 0 <= c[2] /\ c[2] <= c[3] /\ c[3] < N
                       /\ c[2] \in starts
                       /\ c[3] + 1 \in DetectedBoundaries \union {N}
                       /\ \A b \in DetectedBoundaries : ~(c[2] < b /\ b <= c[3])
                       /\ c[1] = Join(PySlice(sm.lines, c[2], c[3] + 1))
                       /\ StripNonEmpty(c[1])
                       /\ \E i \in c[2]..c[3] : ~BlankAt(sm.lines, i)
            /\ \A n \in 1..(Len(sm.chunks) - 1) :
                   sm.chunks[n][3] < sm.chunks[n + 1][2]
            /\ \A i \in 0..(N - 1) :
                   \/ \E n \in 1..Len(sm.chunks) :
                          sm.chunks[n][2] <= i /\ i <= sm.chunks[n][3]
                   \/ \E a \in starts, z \in DetectedBoundaries \union {N} :
                          /\ a <= i /\ i < z
                          /\ \A j \in a..(z - 1) : BlankAt(sm.lines, j)

\* a blank first line is left out, and two candidates follow it
C29_Witness ==
    /\ sm.pc = "done"
    /\ Len(sm.lines) = 4
    /\ BlankAt(sm.lines, 0)
    /\ DetectedBoundaries = {1, 3}
    /\ Len(sm.chunks) = 2
    /\ sm.chunks[1][2] = 1
    /\ sm.chunks[2][2] = 3



\* C26: with the OpenAI embedding function a batch that is submitted, or
\* that the inner loop has assembled, has a token sum over
\* max_tokens_per_batch only if it holds exactly one chunk, whose count is
\* over OPENAI_MAX_TOKENS - 500 and at most OPENAI_MAX_TOKENS; a batch of two
\* or more chunks has a token sum of at most max_tokens_per_batch.
C26_OverBudgetOnlyAlone ==
    LET Within(documents) ==
            /\ TokenSum(documents) > max_tokens_per_batch =>
                   /\ Len(documents) = 1
                   /\ count_tokens(documents[1]) > OPENAI_MAX_TOKENS - 500
                   /\ count_tokens(documents[1]) <= OPENAI_MAX_TOKENS
            /\ Len(documents) >= 2 => TokenSum(documents) <= max_tokens_per_batch
    IN  /\ BatchSubmitted => Within(call.documents)
        /\ ix.pc \in {"inner", "flush", "fallback"} =>
               /\ Within(ix.batch_documents)
               /\ ix.batch_tokens = TokenSum(ix.batch_documents)

C26_Witness ==
    /\ call.site = "flush"
    /\ call.outcome = "ok"
    /\ Len(call.documents) = 1
    /\ count_tokens(call.documents[1]) = OPENAI_MAX_TOKENS
    /\ ix.truncated_count = 1
    /\ Len(ix.ids_list) = 1

\* C27: no call of index_file takes the branch of the batch loop for a
\* chunk over OPENAI_MAX_TOKENS: with the OpenAI embedding function every
\* document of documents_list counts at most OPENAI_MAX_TOKENS, so the
\* inner loop never meets chunk_tokens > OPENAI_MAX_TOKENS and no upsert is
\* issued from that branch.
C27_OversizedBranchNeverTaken ==
    /\ ix.pc \notin {"ov_flush", "ov_fallback", "ov_single", "ov_retry"}
    /\ call.site \notin {"ov_flush", "ov_fallback", "ov_single", "ov_retry"}
    /\ ix.is_openai_embedding =>
           \A k \in 1..Len(ix.documents_list) :
               ~(count_tokens(ix.documents_list[k]) > OPENAI_MAX_TOKENS)

C27_Witness ==
    /\ ix.pc = "inner"
    /\ ix.is_openai_embedding
    /\ ix.i = 2
    /\ Len(ix.batch_ids) = 1
    /\ count_tokens(ix.chunks_with_pos[2][1]) > OPENAI_MAX_TOKENS
    /\ ix.documents_list[2] # ix.chunks_with_pos[2][1]
    /\ ix.batch_documents = <<ix.documents_list[2]>>

\* C28: within one index_file call every chunk id is passed to
\* collection.upsert at most once inside a batch and at most once alone, is
\* upserted without an error at most once and is counted in successful_count
\* at most once; successful_count is at most the number of chunks, also when
\* index_file returns, and the call issues at most two upsert calls per
\* chunk.
C28_EachChunkSubmittedAtMostTwice ==
    LET chunk_count == Len(ix.ids_list)
        Passed == DOMAIN sent.batch \union DOMAIN sent.alone
    IN  /\ Passed \subseteq Range(ix.ids_list)
        /\ Cardinality(Range(ix.ids_list)) = chunk_count
        /\ \A id \in DOMAIN sent.batch : sent.batch[id] <= 1
        /\ \A id \in DOMAIN sent.alone : sent.alone[id] <= 1
        /\ \A id \in DOMAIN sent.ok : sent.ok[id] <= 1 /\ id \in Passed
        /\ ix.is_openai_embedding =>
               ix.successful_count = Cardinality(DOMAIN sent.ok)
        /\ ix.successful_count <= chunk_count
        /\ ix.pc = "done" => ix.successful_count <= chunk_count
        /\ sent.calls <= 2 * chunk_count

C28_Witness ==
    /\ ix.pc = "done"
    /\ ix.ret
    /\ Len(ix.ids_list) >= 2
    /\ sent.calls > Len(ix.ids_list)
    /\ \E id \in Range(ix.ids_list) :
          /\ id \in DOMAIN sent.batch /\ sent.batch[id] = 1
          /\ id \in DOMAIN sent.alone /\ sent.alone[id] = 1
          /\ id \in DOMAIN sent.ok /\ sent.ok[id] = 1

=============================================================================
